---- MODULE Spec2Model ----
(***************************************************************************)
(* Weather ETL pipeline (src/main.py): extract -> transform -> load.       *)
(*                                                                         *)
(* Units.  Celsius temperatures are integers in tenths of a degree         *)
(* (22.5 C = 225).  Fahrenheit temperatures are integers in fiftieths of   *)
(* a degree, so that c*9/5+32 is exact: (c10/10*9/5+32)*50 = c10*9+1600    *)
(* (72.5 F = 3625).  Instants are epoch seconds; a datetime is the naive   *)
(* local wall-clock reading in seconds.                                    *)
(***************************************************************************)
EXTENDS Integers, Sequences, FiniteSets, TLC

VARIABLES
    apiKey,            \* API_KEY as read from the environment
    tz,                \* local timezone of the host (used by fromtimestamp)
    pc,                \* position of the single thread of control
    caller,            \* who called create_table: "load" or "main"
    ran,               \* run_etl_pipeline has been invoked
    createCalls,       \* number of direct create_table() calls made so far
    createResults,     \* how each finished direct create_table() call ended
    calls,             \* functions entered so far, in order, with their caller
    requests,          \* cities for which requests.get was issued, in order
    responses,         \* provider responses received, in order
    idx,               \* position in CITIES of the loop in extract
    all_weather_data,  \* list built by the loop in extract
    df,                \* the DataFrame handed between stages
    outcome,           \* how run_etl_pipeline ended: status and exception
    conns,             \* every connection opened so far: owner and state
    faults,            \* database faults (server or network) met so far
    tableExists,       \* current_weather exists (committed)
    tableColumns,      \* its column list
    tableRows,         \* its committed rows
    nextId,            \* next value of the SERIAL sequence behind id
    ddlPending,        \* CREATE TABLE executed in create_table, not yet committed
    txnRows,           \* rows inserted on load's connection, not yet committed
    loaded             \* row counts reported by successful loads

vars == <<apiKey, tz, pc, caller, ran, createCalls, createResults, calls, requests,
          responses, idx, all_weather_data, df, outcome, conns, faults, tableExists, tableColumns,
          tableRows, nextId, ddlPending, txnRows, loaded>>

----------------------------------------------------------------------------
(* Bounds *)

\* direct create_table() calls explored besides the one made by load
MaxCreateCalls == 1

\* temperatures explored by SpecTemp, in tenths of a degree Celsius
MaxTemp == 600

----------------------------------------------------------------------------
(* Configuration *)

CITIES == <<"London, UK", "New York, US", "Tokyo, JP", "Sydney, AU", "Rio de Janeiro, BR">>

\* os.getenv('WEATHER_API_KEY'): unset (None), set but empty, or set.
ApiKeys == { [set |-> FALSE, val |-> ""],
             [set |-> TRUE,  val |-> ""],
             [set |-> TRUE,  val |-> "k3y"] }

\* a check that only tests API_KEY against None
Truthy_NoneOnly(k) == k.set

\* Python truthiness of API_KEY: None and "" are both falsy.
Truthy(k) == k.set /\ k.val # ""

\* JSON values of the two temperature fields: a number or a string.
Num(n) == [kind |-> "number", val |-> n]
Str(s) == [kind |-> "string", text |-> s]

----------------------------------------------------------------------------
(* Provider responses *)

RequiredFields == {"sys.country", "main.temp", "main.feels_like", "main.humidity",
                   "main.pressure", "wind.speed", "weather.0.main",
                   "weather.0.description", "dt", "sys.sunrise", "sys.sunset"}

\* A complete body; sunset is fixed 12 hours after sunrise.
Body(temp, feels, sunrise, dtOffset) ==
    [f \in RequiredFields |->
        CASE f = "sys.country"           -> "GB"
          [] f = "main.temp"             -> temp
          [] f = "main.feels_like"       -> feels
          [] f = "main.humidity"         -> 60
          [] f = "main.pressure"         -> 1012
          [] f = "wind.speed"            -> 32
          [] f = "weather.0.main"        -> "Clouds"
          [] f = "weather.0.description" -> "overcast"
          [] f = "dt"                    -> sunrise + dtOffset
          [] f = "sys.sunrise"           -> sunrise
          [] f = "sys.sunset"            -> sunrise + 43200]

\* body with one required field missing
Without(body, field) == [f \in (DOMAIN body) \ {field} |-> body[f]]

ScenarioBody == Body(Num(225), Num(210), 0, 3600)

OkBodies == { ScenarioBody,
              Body(Num(510), Num(530), 86400, -1),
              Body(Num(0), Num(-20), 86400, 43200),
              Body(Str("n/a"), Num(210), 0, 3600) }

\* outcome of requests.get: a response with a status and a body, or a
\* network-level exception
SampleResponses ==
    { [raised |-> FALSE, status |-> 200, body |-> b] : b \in OkBodies }
    \cup { [raised |-> FALSE, status |-> 404, body |-> ScenarioBody],
           [raised |-> FALSE, status |-> 200, body |-> Without(ScenarioBody, "wind.speed")],
           [raised |-> TRUE,  status |-> 0,   body |-> ScenarioBody] }

----------------------------------------------------------------------------
(* Time *)

TimeZones == {"UTC", "DST"}

\* Offset of local time from UTC.  "DST" is a zone that falls back one hour
\* at epoch second 1800.
UtcOffset(zone, t) ==
    IF zone = "UTC" THEN 0
    ELSE IF t < 1800 THEN 7200 ELSE 3600

\* datetime.fromtimestamp(t): naive local wall-clock reading
fromtimestamp(zone, t) == t + UtcOffset(zone, t)

\* readings of datetime.now()
NowValues == {200000, 200001}

----------------------------------------------------------------------------
(* DataFrame: an ordered column list and a list of rows (column -> value) *)

\* key order of the processed_data dict built in extract
ExtractColumns == <<"city", "country", "temperature", "feels_like", "humidity",
                    "pressure", "wind_speed", "weather_main", "weather_description",
                    "timestamp", "sunrise", "sunset">>

Range(s) == { s[k] : k \in DOMAIN s }

\* a frame that loses the last record of the list
DataFrame_DropLast(records) ==
    [columns |-> ExtractColumns, rows |-> SubSeq(records, 1, Len(records) - 1)]

\* pd.DataFrame(list of dicts): the columns are the dicts' keys in order
DataFrame(records) == [columns |-> ExtractColumns, rows |-> records]

NoFrame == [columns |-> <<>>, rows |-> <<>>]

\* df[name] = values: a new column is appended after the existing ones, an
\* existing one is overwritten in place
SetColumn(d, name, values) ==
    [columns |-> IF name \in Range(d.columns) THEN d.columns ELSE Append(d.columns, name),
     rows    |-> [k \in DOMAIN d.rows |->
                    [c \in (DOMAIN d.rows[k]) \cup {name} |->
                        IF c = name THEN values[k] ELSE d.rows[k][c]]]]

\* the record extract builds from one response body for one city
processed_data(zone, city, body) ==
    [c \in Range(ExtractColumns) |->
        CASE c = "city"                -> city
          [] c = "country"             -> body["sys.country"]
          [] c = "temperature"         -> body["main.temp"]
          [] c = "feels_like"          -> body["main.feels_like"]
          [] c = "humidity"            -> body["main.humidity"]
          [] c = "pressure"            -> body["main.pressure"]
          [] c = "wind_speed"          -> body["wind.speed"]
          [] c = "weather_main"        -> body["weather.0.main"]
          [] c = "weather_description" -> body["weather.0.description"]
          [] c = "timestamp"           -> fromtimestamp(zone, body["dt"])
          [] c = "sunrise"             -> fromtimestamp(zone, body["sys.sunrise"])
          [] c = "sunset"              -> fromtimestamp(zone, body["sys.sunset"])]

----------------------------------------------------------------------------
(* The derivations of transform *)

is_daytime(row) ==
    IF row["sunrise"] <= row["timestamp"] /\ row["timestamp"] <= row["sunset"]
    THEN "Day" ELSE "Night"

\* (c + 32) * 9/5: the offset added before the scaling
fahrenheit_OffsetFirst(c) == (c + 320) * 9

\* c * 9/5 + 32, from tenths of a degree C to fiftieths of a degree F
fahrenheit(c) == c * 9 + 1600

\* buckets closed on the upper end
temp_category_Inclusive(temp) ==
    IF temp <= 0 THEN "Very Cold"
    ELSE IF temp <= 100 THEN "Cold"
    ELSE IF temp <= 200 THEN "Mild"
    ELSE IF temp <= 300 THEN "Warm"
    ELSE "Hot"

temp_category(temp) ==
    IF temp < 0 THEN "Very Cold"
    ELSE IF temp < 100 THEN "Cold"
    ELSE IF temp < 200 THEN "Mild"
    ELSE IF temp < 300 THEN "Warm"
    ELSE "Hot"

data_quality(temp) ==
    IF temp > 500 \/ temp < -500 THEN "Suspicious" ELSE "Good"

\* Series * 9/5 raises TypeError as soon as one element is a str
ArithmeticFails(d, column) ==
    \E k \in DOMAIN d.rows : d.rows[k][column].kind # "number"

TransformFails(d) ==
    ArithmeticFails(d, "temperature") \/ ArithmeticFails(d, "feels_like")

\* the frame transform returns when it does not raise
Transformed(d, now) ==
    LET n  == DOMAIN d.rows
        d1 == SetColumn(d,  "etl_timestamp", [k \in n |-> now])
        d2 == SetColumn(d1, "day_night",     [k \in n |-> is_daytime(d1.rows[k])])
        d3 == SetColumn(d2, "temperature_f", [k \in n |-> fahrenheit(d2.rows[k]["temperature"].val)])
        d4 == SetColumn(d3, "feels_like_f",  [k \in n |-> fahrenheit(d3.rows[k]["feels_like"].val)])
        d5 == SetColumn(d4, "temp_category", [k \in n |-> temp_category(d4.rows[k]["temperature"].val)])
        d6 == SetColumn(d5, "data_quality",  [k \in n |-> data_quality(d5.rows[k]["temperature"].val)])
    IN  d6

----------------------------------------------------------------------------
(* Destination table *)

\* columns of CREATE TABLE IF NOT EXISTS current_weather, in declared order
SchemaColumns == <<"id", "city", "country", "temperature", "temperature_f",
                   "feels_like", "feels_like_f", "humidity", "pressure",
                   "wind_speed", "weather_main", "weather_description",
                   "timestamp", "sunrise", "sunset", "day_night",
                   "temp_category", "data_quality", "etl_timestamp">>

\* a table left by an older deployment, without the data_quality column
LegacyColumns == SelectSeq(SchemaColumns, LAMBDA c : c # "data_quality")

\* an INSERT without a column list: the p-th value goes to the p-th
\* non-identity column of the table
StoredRow_Positional(tcolumns, columns, tuple, id) ==
    [c \in Range(tcolumns) |->
        IF c = "id" THEN id
        ELSE LET p == CHOOSE q \in DOMAIN tcolumns : tcolumns[q] = c
             IN  IF p - 1 \in DOMAIN tuple THEN tuple[p - 1] ELSE "NULL"]

\* the row INSERT INTO current_weather (columns) stores for one tuple: each
\* value goes to the column named at the same position of the column list,
\* id is drawn from the sequence, unnamed columns are NULL
StoredRow(tcolumns, columns, tuple, id) ==
    [c \in Range(tcolumns) |->
        IF c = "id" THEN id
        ELSE IF \E p \in DOMAIN columns : columns[p] = c
             THEN LET p == CHOOSE q \in DOMAIN columns : columns[q] = c
                  IN  tuple[p]
             ELSE "NULL"]

\* tuple(row) for row in df.itertuples(index=False): values in column order
Tuple(d, k) == [p \in DOMAIN d.columns |-> d.rows[k][d.columns[p]]]

\* a row written by an earlier run
EarlierFrame ==
    Transformed([columns |-> ExtractColumns,
                 rows    |-> <<processed_data("UTC", "London, UK", ScenarioBody)>>], 100000)

EarlierRow == StoredRow(SchemaColumns, EarlierFrame.columns, Tuple(EarlierFrame, 1), 1)

\* the database as the program may find it: no table, the declared table
\* holding an earlier row, or a legacy table
InitialTables ==
    { [exists |-> FALSE, columns |-> <<>>,          rows |-> <<>>,           nextId |-> 1],
      [exists |-> TRUE,  columns |-> SchemaColumns, rows |-> <<EarlierRow>>, nextId |-> 2],
      [exists |-> TRUE,  columns |-> LegacyColumns, rows |-> <<>>,           nextId |-> 1] }

----------------------------------------------------------------------------
(* Initial state: the module has been imported, nothing has run *)

Pending == [status |-> "pending", error |-> ""]
Success == [status |-> "success", error |-> ""]
Failure(e) == [status |-> "failure", error |-> e]

Init ==
    /\ apiKey \in ApiKeys
    /\ tz \in TimeZones
    /\ pc = "idle"
    /\ caller = "main"
    /\ ran = FALSE
    /\ createCalls = 0
    /\ createResults = <<>>
    /\ calls = <<>>
    /\ requests = <<>>
    /\ responses = <<>>
    /\ idx = 1
    /\ all_weather_data = <<>>
    /\ df = NoFrame
    /\ outcome = Pending
    /\ conns = <<>>
    /\ faults = 0
    /\ \E t \in InitialTables :
          /\ tableExists = t.exists
          /\ tableColumns = t.columns
          /\ tableRows = t.rows
          /\ nextId = t.nextId
    /\ ddlPending = FALSE
    /\ txnRows = <<>>
    /\ loaded = <<>>

Call(fn, by) == [fn |-> fn, by |-> by]

dbVars == <<tableExists, tableColumns, tableRows, nextId, ddlPending, txnRows>>
extractVars == <<requests, responses, idx, all_weather_data>>
createVars == <<createCalls, createResults>>

----------------------------------------------------------------------------
(* run_etl_pipeline and extract *)

\* run_etl_pipeline() is entered and calls extract(), which checks API_KEY
\* before the loop
RunEtlPipeline ==
    /\ pc = "idle"
    /\ ~ran
    /\ ran' = TRUE
    /\ calls' = Append(calls, Call("extract", "run_etl_pipeline"))
    /\ IF ~Truthy(apiKey)
       THEN /\ outcome' = Failure("ValueError")
            /\ pc' = "idle"
            /\ UNCHANGED <<idx, all_weather_data>>
       ELSE /\ all_weather_data' = <<>>
            /\ idx' = 1
            /\ pc' = "extract_loop"
            /\ UNCHANGED outcome
    /\ UNCHANGED <<apiKey, tz, caller, createVars, requests, responses, df, conns,
                   faults, dbVars, loaded>>

\* a status check that lets client errors (4xx) through
IsHttpError_ServerOnly(status) == 500 <= status /\ status < 600

\* HTTP statuses for which response.raise_for_status() raises
IsHttpError(status) == 400 <= status /\ status < 600

\* one iteration of the loop over CITIES
ExtractFetch(resp) ==
    /\ pc = "extract_loop"
    /\ idx <= Len(CITIES)
    /\ requests' = Append(requests, CITIES[idx])
    /\ IF resp.raised
       THEN /\ outcome' = Failure("ConnectionError")
            /\ pc' = "idle"
            /\ UNCHANGED <<responses, idx, all_weather_data>>
       ELSE /\ responses' = Append(responses, resp)
            /\ IF IsHttpError(resp.status)
               THEN /\ outcome' = Failure("HTTPError")
                    /\ pc' = "idle"
                    /\ UNCHANGED <<idx, all_weather_data>>
               ELSE IF ~(RequiredFields \subseteq DOMAIN resp.body)
               THEN /\ outcome' = Failure("KeyError")
                    /\ pc' = "idle"
                    /\ UNCHANGED <<idx, all_weather_data>>
               ELSE /\ all_weather_data' =
                          Append(all_weather_data, processed_data(tz, CITIES[idx], resp.body))
                    /\ idx' = idx + 1
                    /\ UNCHANGED <<outcome, pc>>
    /\ UNCHANGED <<apiKey, tz, caller, ran, createVars, calls, df, conns, faults, dbVars,
                   loaded>>

\* the loop is exhausted: extract returns the frame
ExtractReturn ==
    /\ pc = "extract_loop"
    /\ idx > Len(CITIES)
    /\ df' = DataFrame(all_weather_data)
    /\ pc' = "transform"
    /\ UNCHANGED <<apiKey, tz, caller, ran, createVars, calls, extractVars, outcome,
                   conns, faults, dbVars, loaded>>

----------------------------------------------------------------------------
(* transform *)

\* the frame as transform leaves it when it raises: the columns assigned
\* before the failing statement stay assigned
PartlyTransformed(d, now) ==
    LET n  == DOMAIN d.rows
        d1 == SetColumn(d,  "etl_timestamp", [k \in n |-> now])
        d2 == SetColumn(d1, "day_night",     [k \in n |-> is_daytime(d1.rows[k])])
        d3 == SetColumn(d2, "temperature_f", [k \in n |-> fahrenheit(d2.rows[k]["temperature"].val)])
    IN  IF ArithmeticFails(d, "temperature") THEN d2 ELSE d3

\* an except clause that logs and does not re-raise
AfterTransform_Swallow(raised) == "load"

\* where run_etl_pipeline goes after transform: the except clauses re-raise,
\* so load is reached only when transform returned
AfterTransform(raised) == IF raised THEN "idle" ELSE "load"

Transform ==
    /\ pc = "transform"
    /\ calls' = Append(calls, Call("transform", "run_etl_pipeline"))
    /\ \E now \in NowValues :
          IF TransformFails(df)
          THEN /\ df' = PartlyTransformed(df, now)
               /\ outcome' = Failure("TypeError")
          ELSE /\ df' = Transformed(df, now)
               /\ UNCHANGED outcome
    /\ pc' = AfterTransform(TransformFails(df))
    /\ UNCHANGED <<apiKey, tz, caller, ran, createVars, extractVars, conns, faults, dbVars,
                   loaded>>

----------------------------------------------------------------------------
(* Connections *)

\* psycopg2.connect succeeded for the named function
Opened(cs, owner) == Append(cs, [owner |-> owner, state |-> "open"])

\* the connection the named function holds: the last one it opened
Held(cs, owner) ==
    CHOOSE k \in DOMAIN cs :
        /\ cs[k].owner = owner
        /\ \A j \in DOMAIN cs : cs[j].owner = owner => j <= k

\* conn.close() on the connection the named function holds
Closed(cs, owner) == [cs EXCEPT ![Held(cs, owner)].state = "closed"]

----------------------------------------------------------------------------
(* create_table *)

\* an exception leaves create_table: through load and run_etl_pipeline if
\* load called it, to the direct caller otherwise
CreateTableRaises(e) ==
    /\ pc' = "idle"
    /\ IF caller = "load"
       THEN /\ outcome' = Failure(e)
            /\ UNCHANGED createResults
       ELSE /\ createResults' = Append(createResults, e)
            /\ UNCHANGED outcome

\* create_table() called directly, outside a pipeline run
CreateTableDirect ==
    /\ pc = "idle"
    /\ createCalls < MaxCreateCalls
    /\ createCalls' = createCalls + 1
    /\ caller' = "main"
    /\ pc' = "create_table"
    /\ UNCHANGED <<apiKey, tz, ran, createResults, calls, extractVars, df, outcome,
                   conns, faults, dbVars, loaded>>

\* create_table is entered and connects
CreateTable_Connect ==
    /\ pc = "create_table"
    /\ calls' = Append(calls, Call("create_table", caller))
    /\ \E ok \in BOOLEAN :
          IF ok
          THEN /\ conns' = Opened(conns, "create_table")
               /\ pc' = "ct_execute"
               /\ UNCHANGED <<outcome, createResults, faults>>
          ELSE /\ CreateTableRaises("OperationalError")
               /\ faults' = faults + 1
               /\ UNCHANGED conns
    /\ UNCHANGED <<apiKey, tz, caller, ran, createCalls, extractVars, df, dbVars, loaded>>

\* a plain CREATE TABLE: an error when the table exists
CreateTableStatement_Plain(exists) == [raises |-> exists, creates |-> ~exists]

\* CREATE TABLE IF NOT EXISTS current_weather (...) as the server runs it:
\* a no-op when the table exists, otherwise the table is created
CreateTableStatement(exists) == [raises |-> FALSE, creates |-> ~exists]

\* cur.execute(create_table_query), inside the connection's open transaction
CreateTable_Execute ==
    /\ pc = "ct_execute"
    /\ \E ok \in BOOLEAN :
          IF ~ok
          THEN /\ CreateTableRaises("DatabaseError")
               /\ faults' = faults + 1
               /\ UNCHANGED ddlPending
          ELSE IF CreateTableStatement(tableExists).raises
          THEN /\ CreateTableRaises("DuplicateTable")
               /\ UNCHANGED <<ddlPending, faults>>
          ELSE /\ ddlPending' = CreateTableStatement(tableExists).creates
               /\ pc' = "ct_commit"
               /\ UNCHANGED <<outcome, createResults, faults>>
    /\ UNCHANGED <<apiKey, tz, caller, ran, createCalls, calls, extractVars, df, conns,
                   tableExists, tableColumns, tableRows, nextId, txnRows, loaded>>

\* conn.commit() in create_table
CreateTable_Commit ==
    /\ pc = "ct_commit"
    /\ ddlPending' = FALSE
    /\ \E ok \in BOOLEAN :
          IF ok
          THEN /\ tableExists' = (tableExists \/ ddlPending)
               /\ tableColumns' = IF ddlPending THEN SchemaColumns ELSE tableColumns
               /\ pc' = "ct_close"
               /\ UNCHANGED <<outcome, createResults, faults>>
          ELSE /\ CreateTableRaises("DatabaseError")
               /\ faults' = faults + 1
               /\ UNCHANGED <<tableExists, tableColumns>>
    /\ UNCHANGED <<apiKey, tz, caller, ran, createCalls, calls, extractVars, df, conns,
                   tableRows, nextId, txnRows, loaded>>

\* conn.close() in create_table, and the return to the caller
CreateTable_Close ==
    /\ pc = "ct_close"
    /\ conns' = Closed(conns, "create_table")
    /\ IF caller = "load"
       THEN /\ pc' = "load_insert"
            /\ UNCHANGED createResults
       ELSE /\ pc' = "idle"
            /\ createResults' = Append(createResults, "ok")
    /\ UNCHANGED <<apiKey, tz, caller, ran, createCalls, calls, extractVars, df, outcome,
                   faults, dbVars, loaded>>

----------------------------------------------------------------------------
(* load *)

LoadRaises(e) ==
    /\ outcome' = Failure(e)
    /\ pc' = "idle"

\* load is entered and connects, then calls create_table()
Load_Connect ==
    /\ pc = "load"
    /\ calls' = Append(calls, Call("load", "run_etl_pipeline"))
    /\ \E ok \in BOOLEAN :
          IF ok
          THEN /\ conns' = Opened(conns, "load")
               /\ caller' = "load"
               /\ pc' = "create_table"
               /\ UNCHANGED <<outcome, faults>>
          ELSE /\ LoadRaises("OperationalError")
               /\ faults' = faults + 1
               /\ UNCHANGED <<conns, caller>>
    /\ UNCHANGED <<apiKey, tz, ran, createVars, extractVars, df, dbVars, loaded>>

\* the column list of the INSERT statement: df.columns.tolist()
InsertColumns(d) == d.columns

\* the server accepts the statement only if every named column exists
InsertAccepted(tcolumns, columns) == Range(columns) \subseteq Range(tcolumns)

\* execute_values(cur, insert_query, data_tuples)
Load_Insert ==
    /\ pc = "load_insert"
    /\ \E ok \in BOOLEAN :
          IF ~InsertAccepted(tableColumns, InsertColumns(df))
          THEN /\ LoadRaises("UndefinedColumn")
               /\ UNCHANGED <<txnRows, nextId, faults>>
          ELSE IF ~ok
          THEN /\ LoadRaises("DatabaseError")
               /\ faults' = faults + 1
               /\ UNCHANGED <<txnRows, nextId>>
          ELSE /\ txnRows' = [k \in DOMAIN df.rows |->
                                StoredRow(tableColumns, InsertColumns(df), Tuple(df, k),
                                          nextId + k - 1)]
               /\ nextId' = nextId + Len(df.rows)
               /\ pc' = "load_commit"
               /\ UNCHANGED <<outcome, faults>>
    /\ UNCHANGED <<apiKey, tz, caller, ran, createVars, calls, extractVars, df, conns,
                   tableExists, tableColumns, tableRows, ddlPending, loaded>>

\* an autocommit connection: the rows of the first statement stay when a
\* later one fails
RowsAfterCommit_Autocommit(rows, pending, ok) ==
    IF ok THEN rows \o pending ELSE rows \o SubSeq(pending, 1, 1)

\* the table after conn.commit(): the one transaction of the connection,
\* holding every inserted row, becomes visible or is lost as a whole
RowsAfterCommit(rows, pending, ok) == IF ok THEN rows \o pending ELSE rows

\* conn.commit() in load
Load_Commit ==
    /\ pc = "load_commit"
    /\ txnRows' = <<>>
    /\ \E ok \in BOOLEAN :
          /\ tableRows' = RowsAfterCommit(tableRows, txnRows, ok)
          /\ IF ok
             THEN /\ pc' = "load_close"
                  /\ UNCHANGED <<outcome, faults>>
             ELSE /\ LoadRaises("DatabaseError")
                  /\ faults' = faults + 1
    /\ UNCHANGED <<apiKey, tz, caller, ran, createVars, calls, extractVars, df, conns,
                   tableExists, tableColumns, nextId, ddlPending, loaded>>

\* conn.close() in load, the success log line, and the return through
\* run_etl_pipeline
Load_Close ==
    /\ pc = "load_close"
    /\ conns' = Closed(conns, "load")
    /\ loaded' = Append(loaded, Len(df.rows))
    /\ outcome' = Success
    /\ pc' = "idle"
    /\ UNCHANGED <<apiKey, tz, caller, ran, createVars, calls, extractVars, df, faults,
                   dbVars>>

----------------------------------------------------------------------------
(* Specification *)

Next ==
    \/ RunEtlPipeline
    \/ \E resp \in SampleResponses : ExtractFetch(resp)
    \/ ExtractReturn
    \/ Transform
    \/ Load_Connect
    \/ CreateTableDirect
    \/ CreateTable_Connect
    \/ CreateTable_Execute
    \/ CreateTable_Commit
    \/ CreateTable_Close
    \/ Load_Insert
    \/ Load_Commit
    \/ Load_Close

Spec == Init /\ [][Next]_vars

\* The state right after extract returned, when every city reported the
\* same temperature t, for every t in tenths of a degree within MaxTemp.
TempBody(t) == Body(Num(t), Num(t), 0, 3600)

InitTemp ==
    \E t \in (-MaxTemp)..MaxTemp :
        /\ apiKey = [set |-> TRUE, val |-> "k3y"]
        /\ tz = "UTC"
        /\ pc = "transform"
        /\ caller = "main"
        /\ ran = TRUE
        /\ createCalls = 0
        /\ createResults = <<>>
        /\ calls = <<Call("extract", "run_etl_pipeline")>>
        /\ requests = CITIES
        /\ responses = [k \in DOMAIN CITIES |->
                          [raised |-> FALSE, status |-> 200, body |-> TempBody(t)]]
        /\ idx = Len(CITIES) + 1
        /\ all_weather_data = [k \in DOMAIN CITIES |->
                                 processed_data("UTC", CITIES[k], TempBody(t))]
        /\ df = DataFrame([k \in DOMAIN CITIES |->
                             processed_data("UTC", CITIES[k], TempBody(t))])
        /\ outcome = Pending
        /\ conns = <<>>
        /\ faults = 0
        /\ tableExists = FALSE
        /\ tableColumns = <<>>
        /\ tableRows = <<>>
        /\ nextId = 1
        /\ ddlPending = FALSE
        /\ txnRows = <<>>
        /\ loaded = <<>>

NextTemp == Transform

SpecTemp == InitTemp /\ [][NextTemp]_vars

----------------------------------------------------------------------------
(* Vocabulary of the properties *)

IsPrefix(s, t) == Len(s) <= Len(t) /\ \A k \in DOMAIN s : s[k] = t[k]

\* the stages run_etl_pipeline has entered, in order
StagesEntered ==
    LET own == SelectSeq(calls, LAMBDA c : c.by = "run_etl_pipeline")
    IN  [k \in DOMAIN own |-> own[k].fn]

Entered(fn, by) == \E k \in DOMAIN calls : calls[k] = Call(fn, by)

\* rows committed to the table since the initial state
NewRows == SelectSeq(tableRows, LAMBDA r : r # EarlierRow)

ExtractErrors == {"ValueError", "ConnectionError", "HTTPError", "KeyError"}

AllColumns == Range(ExtractColumns) \cup {"etl_timestamp", "day_night", "temperature_f",
                                          "feels_like_f", "temp_category", "data_quality"}

\* the stored row carries record k of the frame, column by column
Carries(row, d, k) == \A c \in Range(d.columns) : row[c] = d.rows[k][c]

----------------------------------------------------------------------------
(* C1 *)

\* C1: the stages are entered only in the order extract, transform, load; a
\* stage is entered only after every earlier stage completed; when extract
\* fails neither transform nor load nor load's create_table is ever entered,
\* when transform fails load is never entered, and in both cases the run
\* has failed and no row was committed.
C1_StageOrder ==
    /\ IsPrefix(StagesEntered, <<"extract", "transform", "load">>)
    /\ Entered("transform", "run_etl_pipeline") =>
          /\ idx > Len(CITIES)
          /\ Len(all_weather_data) = Len(CITIES)
    /\ Entered("load", "run_etl_pipeline") =>
          /\ Range(df.columns) = AllColumns
          /\ ~TransformFails(df)
    /\ outcome.error \in ExtractErrors =>
          /\ outcome.status = "failure"
          /\ ~Entered("transform", "run_etl_pipeline")
          /\ ~Entered("load", "run_etl_pipeline")
          /\ ~Entered("create_table", "load")
          /\ NewRows = <<>>
    /\ outcome.error = "TypeError" =>
          /\ outcome.status = "failure"
          /\ ~Entered("load", "run_etl_pipeline")
          /\ ~Entered("create_table", "load")
          /\ NewRows = <<>>

\* transform raised after a complete extraction and the run is over
C1_Witness ==
    /\ pc = "idle"
    /\ outcome = Failure("TypeError")
    /\ StagesEntered = <<"extract", "transform">>

----------------------------------------------------------------------------
(* C2 *)

\* C2: when API_KEY is absent or empty no request is ever issued, load is
\* never entered, and once the pipeline has been run it has failed with the
\* missing-key error.
C2_MissingKey ==
    (~apiKey.set \/ apiKey.val = "") =>
        /\ requests = <<>>
        /\ responses = <<>>
        /\ ~Entered("load", "run_etl_pipeline")
        /\ ran => outcome = Failure("ValueError") /\ pc # "extract_loop"

\* the pipeline was run with an empty (but set) key
C2_Witness ==
    /\ apiKey = [set |-> TRUE, val |-> ""]
    /\ ran
    /\ outcome = Failure("ValueError")

----------------------------------------------------------------------------
(* C3 *)

\* a response extract must reject: error status or a required field missing
Rejected(resp) == resp.status >= 400 \/ ~(RequiredFields \subseteq DOMAIN resp.body)

\* C3: when the response for the city at position k is rejected, it is the
\* last response ever received, requests were issued exactly for positions
\* 1..k, extract returned no frame (the k-1 records built stay in extract),
\* transform and load are never entered, and the run has failed with the
\* error of that response.
C3_FailFast ==
    \A k \in DOMAIN responses :
        Rejected(responses[k]) =>
            /\ k = Len(responses)
            /\ requests = SubSeq(CITIES, 1, k)
            /\ Len(all_weather_data) = k - 1
            /\ df = NoFrame
            /\ ~Entered("transform", "run_etl_pipeline")
            /\ ~Entered("load", "run_etl_pipeline")
            /\ pc # "extract_loop"
            /\ outcome = Failure(IF responses[k].status >= 400 THEN "HTTPError" ELSE "KeyError")

\* the third city answered 404 after two records had been built
C3_Witness ==
    /\ Len(responses) = 3
    /\ responses[3].status = 404
    /\ Len(all_weather_data) = 2
    /\ pc = "idle"

----------------------------------------------------------------------------
(* C4 *)

\* C4: the rows load has committed are at all times either none or the whole
\* batch, record by record; after load raised they are none, after load
\* returned they are the whole batch.
C4_AllOrNothing ==
    /\ \/ NewRows = <<>>
       \/ /\ Len(NewRows) = Len(df.rows)
          /\ \A k \in DOMAIN NewRows : Carries(NewRows[k], df, k)
    /\ outcome.status = "failure" => NewRows = <<>>
    /\ outcome.status = "success" => Len(NewRows) = Len(CITIES)

\* the insert went through and the commit failed
C4_Witness ==
    /\ outcome = Failure("DatabaseError")
    /\ nextId > Len(tableRows) + Len(CITIES)
    /\ NewRows = <<>>

----------------------------------------------------------------------------
(* C5 *)

CreateTablePcs == {"create_table", "ct_execute", "ct_commit", "ct_close"}

\* what every step taken inside create_table satisfies
C5_CreateTableStep ==
    pc \in CreateTablePcs =>
        /\ tableRows' = tableRows
        /\ tableExists => (tableExists' /\ tableColumns' = tableColumns)
        /\ pc = "ct_close" => tableExists
        /\ (faults' = faults /\ pc # "ct_close") => pc' \in CreateTablePcs

\* C5: no step of create_table changes the stored rows; once the table
\* exists no step of create_table removes it or changes its column list;
\* when create_table returns the table exists; and create_table raises only
\* on a database fault, whatever the table's state and however many calls
\* came before.
C5_IdempotentSchema == [][C5_CreateTableStep]_vars

\* create_table ran twice without a fault, on a table holding rows: once
\* directly and once from a load that succeeded
C5_Witness ==
    /\ faults = 0
    /\ createResults = <<"ok">>
    /\ outcome = Success
    /\ Entered("create_table", "load")
    /\ Len(tableRows) > Len(CITIES)

----------------------------------------------------------------------------
(* C6 *)

\* C6: once extract has returned the frame has one record per configured
\* city, the k-th carrying the k-th city; once transform has returned the
\* frame still has these records in this order with every extracted field
\* unchanged; and a load that returned has committed one row per city, in
\* order, and reported that count.
C6_Cardinality ==
    /\ pc \in {"transform", "load"} =>
          /\ Len(df.rows) = Len(CITIES)
          /\ \A k \in DOMAIN df.rows : df.rows[k]["city"] = CITIES[k]
    /\ pc = "load" =>
          \A k \in DOMAIN df.rows :
              \A c \in Range(ExtractColumns) : df.rows[k][c] = all_weather_data[k][c]
    /\ outcome = Success =>
          /\ loaded = <<Len(CITIES)>>
          /\ Len(NewRows) = Len(CITIES)
          /\ \A k \in DOMAIN NewRows : NewRows[k]["city"] = CITIES[k]

\* a run that went through all three stages
C6_Witness ==
    /\ outcome = Success
    /\ Len(requests) = Len(CITIES)
    /\ loaded = <<Len(CITIES)>>

----------------------------------------------------------------------------
(* C7 *)

\* C7: after transform every record's temp_category is "Very Cold" below 0,
\* "Cold" in [0,10), "Mild" in [10,20), "Warm" in [20,30) and "Hot" from 30
\* on (temperatures in tenths of a degree).
C7_TempCategory ==
    pc = "load" =>
        \A k \in DOMAIN df.rows :
            LET t   == df.rows[k]["temperature"].val
                cat == df.rows[k]["temp_category"]
            IN  /\ t < 0 => cat = "Very Cold"
                /\ (0 <= t /\ t < 100) => cat = "Cold"
                /\ (100 <= t /\ t < 200) => cat = "Mild"
                /\ (200 <= t /\ t < 300) => cat = "Warm"
                /\ t >= 300 => cat = "Hot"

\* a frame at exactly 20.0 degrees went through transform
C7_Witness ==
    /\ pc = "load"
    /\ df.rows[1]["temperature"].val = 200
    /\ df.rows[1]["temp_category"] = "Warm"

----------------------------------------------------------------------------
(* C8 *)

\* position k received the response of the end-to-end scenario
ScenarioAt(k) ==
    /\ k \in DOMAIN responses
    /\ responses[k].status = 200
    /\ responses[k].body = ScenarioBody

\* the derived fields of the row stored for position k
StoredDerived(k, category) ==
    /\ NewRows[k]["temp_category"] = category
    /\ NewRows[k]["day_night"] = "Day"
    /\ NewRows[k]["data_quality"] = "Good"
    /\ NewRows[k]["temperature_f"] = 3625

\* C8 as stated: the row stored for the scenario response has
\* temp_category "Mild", day_night "Day", data_quality "Good" and
\* temperature_f 72.5.
C8_AsStated ==
    outcome = Success =>
        \A k \in DOMAIN NewRows : ScenarioAt(k) => StoredDerived(k, "Mild")

\* C8 amended: the row stored for the scenario response has temp_category
\* "Warm" (22.5 lies in [20,30)), day_night "Day", data_quality "Good" and
\* temperature_f 72.5.
C8_Scenario ==
    outcome = Success =>
        \A k \in DOMAIN NewRows : ScenarioAt(k) => StoredDerived(k, "Warm")

\* a successful run whose first city received the scenario response
C8_Witness ==
    /\ outcome = Success
    /\ ScenarioAt(1)
    /\ Len(NewRows) = Len(CITIES)

----------------------------------------------------------------------------
(* C9 *)

\* the non-identity columns of the declared schema, in declared order
DeclaredColumns == Tail(SchemaColumns)

\* C9 as stated: the INSERT names the declared non-identity columns in the
\* declared order, and rows are inserted only when the two orders agree.
C9_AsStated ==
    /\ pc = "load_insert" => InsertColumns(df) = DeclaredColumns
    /\ txnRows # <<>> => InsertColumns(df) = DeclaredColumns

\* C9 amended: the INSERT names each declared non-identity column exactly
\* once, in the frame's order and not the declared one; every inserted row
\* holds each value of its record under the column of the same name
\* (columns compared from the last one back); and load raises before
\* inserting exactly when the table lacks a named column.
C9_ColumnsByName ==
    /\ pc \in {"load_insert", "load_commit"} =>
          /\ Range(InsertColumns(df)) = Range(DeclaredColumns)
          /\ Len(InsertColumns(df)) = Len(DeclaredColumns)
          /\ InsertColumns(df) # DeclaredColumns
    /\ \A k \in DOMAIN txnRows :
          \A p \in DOMAIN df.columns :
              LET c == df.columns[Len(df.columns) + 1 - p]
              IN  txnRows[k][c] = df.rows[k][c]
    /\ txnRows # <<>> => Len(txnRows) = Len(df.rows) /\ InsertAccepted(tableColumns, InsertColumns(df))
    /\ outcome.error = "UndefinedColumn" =>
          /\ ~InsertAccepted(tableColumns, InsertColumns(df))
          /\ txnRows = <<>>
          /\ NewRows = <<>>

\* the rows were inserted although the two orders differ
C9_Witness ==
    /\ pc = "load_commit"
    /\ Len(txnRows) = Len(CITIES)
    /\ InsertColumns(df) # DeclaredColumns

----------------------------------------------------------------------------
(* C10 *)

\* C10 as stated: whenever no call is in progress, every connection opened
\* so far has been closed.
C10_AsStated ==
    pc = "idle" => \A k \in DOMAIN conns : conns[k].state = "closed"

====
